---- MODULE Spec2Model ----
(***************************************************************************)
(* Model of electroncash/migrate_data.py: the import of the Electron Cash  *)
(* data directory (migrate_data_from_ec), the configuration upgrade        *)
(* (update_config) and their helpers (safe_rm, replace_src_dest_in_config, *)
(* reset_server_config).                                                   *)
(*                                                                         *)
(* A file system is a function from the paths that exist to nodes; a path  *)
(* is a sequence of component names.  A config record is a function from   *)
(* its keys to tagged values; a string value is a sequence of characters.  *)
(***************************************************************************)
EXTENDS Integers, Sequences, FiniteSets, TLC

VARIABLES
    os_name,     \* os.name: "posix" or "nt"
    environ,     \* the names set in os.environ
    fs,          \* the file system: path -> [kind, ok, d]
    cwd,         \* the process's current working directory (a path)
    canCreate,   \* whether the destination directory can be created
    unreadable,  \* legacy paths that cannot be read by the copy
    pc,          \* position inside the running routine, "idle" between calls
    listing,     \* migrate_data_from_ec: names of os.listdir still to visit
    outcome,     \* how the last call ended: "none", "returned", "raised"
    runs,        \* number of calls made so far
    fs0,         \* the file system when the last call started
    steps,       \* the steps the last call of migrate_data_from_ec executed
    rmFailed,    \* whether a safe_rm of the last call logged a failure
    version,     \* update_config: VERSION_TUPLE of the last call
    gated,       \* update_config: running versions that passed the gate
    inp,         \* input of the pure function under check
    out          \* its result

vars == <<os_name, environ, fs, cwd, canCreate, unreadable, pc, listing, outcome, runs,
          fs0, steps, rmFailed, version, gated, inp, out>>

-----------------------------------------------------------------------------
(* Bounds of the model.                                                    *)

\* longest string value drawn as input of replace_src_dest_in_config
MaxLen == 4
\* longest recently_open list drawn as input
MaxOpen == 1
\* number of calls of one routine in a run of the model
MaxRuns == 2
\* number of calls of update_config in a run of the model
MaxUpdates == 3
\* largest patch number of a version tuple
MaxPatch == 2

-----------------------------------------------------------------------------
(* Values of a config record (what json.loads can return, plus the tuple   *)
(* VERSION_TUPLE that update_config stores before the record is saved).    *)

StrV(s) == [t |-> "str", v |-> s]
IntV(n) == [t |-> "int", v |-> n]
BoolV(b) == [t |-> "bool", v |-> b]
ListV(l) == [t |-> "list", v |-> l]
TupleV(l) == [t |-> "tuple", v |-> l]

\* dict operations
Has(c, k) == k \in DOMAIN c
Set(c, k, val) == [x \in DOMAIN c \cup {k} |-> IF x = k THEN val ELSE c[x]]
Pop(c, k) == [x \in DOMAIN c \ {k} |-> c[x]]
EmptyDict == [x \in {} |-> IntV(0)]

-----------------------------------------------------------------------------
(* Strings.                                                                *)

StartsWith(s, p) == Len(p) <= Len(s) /\ SubSeq(s, 1, Len(p)) = p

\* str.replace(old, new) for a non-empty old: the non-overlapping
\* occurrences of old, found from left to right, are replaced by new
RECURSIVE Replace(_, _, _)
Replace(s, old, new) ==
    IF Len(s) = 0 THEN << >>
    ELSE IF StartsWith(s, old)
         THEN new \o Replace(SubSeq(s, Len(old) + 1, Len(s)), old, new)
         ELSE <<Head(s)>> \o Replace(Tail(s), old, new)

\* whether old occurs somewhere in s
RECURSIVE Contains(_, _)
Contains(s, old) ==
    IF Len(s) < Len(old) THEN FALSE
    ELSE StartsWith(s, old) \/ Contains(Tail(s), old)

LowerChar(ch) ==
    CASE ch = "E" -> "e"
      [] ch = "A" -> "a"
      [] ch = "W" -> "w"
      [] OTHER -> ch

\* os.path.normcase: the identity on posix; on Windows lower case and
\* forward slashes turned into backslashes
normcase(os, s) ==
    IF os = "posix" THEN s
    ELSE [i \in 1..Len(s) |-> IF s[i] = "/" THEN "\\" ELSE LowerChar(s[i])]

\* get_ec_user_dir() and get_user_dir() as strings
SrcStr(os) == IF os = "posix" THEN <<"/", "e">> ELSE <<"\\", "E">>
DestStr(os) == IF os = "posix" THEN <<"/", "a">> ELSE <<"\\", "A">>

-----------------------------------------------------------------------------
(* Program constants.                                                      *)

DEFAULT_WHITELIST_SERVERS_ONLY == TRUE
DEFAULT_AUTO_CONNECT == TRUE
\* SimpleConfig.default_fee_rate()
DefaultFeeRate == 5000
OLD_DEFAULT_FEES == {80000, 10000}
INVALID_FUSION_HOSTS == {<<"k">>, <<"t">>}
\* DEFAULT_SERVERS[0]: host, port, ssl
DefaultFusionServer == ListV(<<StrV(<<"f">>), IntV(1), BoolV(TRUE)>>)
\* config.get("latest_version_used", (4, 3, 1))
BaselineVersion == <<4, 3, 1>>

-----------------------------------------------------------------------------
(* reset_server_config                                                     *)

\* the reset that leaves the stored RPC password in place
reset_server_config_KeepPassword(config) ==
    LET c1 == Set(config, "whitelist_servers_only",
                  BoolV(DEFAULT_WHITELIST_SERVERS_ONLY))
        c2 == Set(c1, "auto_connect", BoolV(DEFAULT_AUTO_CONNECT))
        c3 == Set(c2, "server", StrV(<< >>))
        c4 == Pop(c3, "server_whitelist_added")
        c5 == Pop(c4, "server_whitelist_removed")
        c6 == Pop(c5, "server_blacklist")
    IN  Pop(c6, "rpcuser")

reset_server_config(config) ==
    LET c1 == Set(config, "whitelist_servers_only",
                  BoolV(DEFAULT_WHITELIST_SERVERS_ONLY))
        c2 == Set(c1, "auto_connect", BoolV(DEFAULT_AUTO_CONNECT))
        c3 == Set(c2, "server", StrV(<< >>))
        c4 == Pop(c3, "server_whitelist_added")
        c5 == Pop(c4, "server_whitelist_removed")
        c6 == Pop(c5, "server_blacklist")
        c7 == Pop(c6, "rpcuser")
    IN  Pop(c7, "rpcpassword")

-----------------------------------------------------------------------------
(* replace_src_dest_in_config                                              *)

\* the first loop leaving every value as it is
RewriteValue_Skip(os, src, dest, val) == val

\* the first loop: the top-level string values
RewriteValue(os, src, dest, val) ==
    IF val.t = "str" /\ StartsWith(normcase(os, val.v), normcase(os, src))
    THEN StrV(Replace(normcase(os, val.v), normcase(os, src), normcase(os, dest)))
    ELSE val

\* the second loop: one entry of recently_open
RewriteWallet(os, src, dest, wallet) ==
    StrV(Replace(normcase(os, wallet.v), normcase(os, src), normcase(os, dest)))

\* whether the second loop raises TypeError: an entry that is no string, a
\* non-empty string (no item assignment) or a value that cannot be iterated
RecentlyOpenRaises(ro) ==
    CASE ro.t = "list" -> \E i \in 1..Len(ro.v) : ro.v[i].t # "str"
      [] ro.t = "str" -> Len(ro.v) > 0
      [] OTHER -> TRUE

\* the result: whether the call raised, and the config it leaves
replace_src_dest_in_config(os, src, dest, config) ==
    LET c1 == [k \in DOMAIN config |-> RewriteValue(os, src, dest, config[k])]
    IN  IF ~Has(c1, "recently_open") THEN [raised |-> FALSE, config |-> c1]
        ELSE IF RecentlyOpenRaises(c1["recently_open"])
             THEN [raised |-> TRUE, config |-> c1]
             ELSE IF c1["recently_open"].t = "str"
                  THEN [raised |-> FALSE, config |-> c1]
                  ELSE [raised |-> FALSE,
                        config |-> Set(c1, "recently_open",
                           ListV([i \in 1..Len(c1["recently_open"].v) |->
                                 RewriteWallet(os, src, dest,
                                               c1["recently_open"].v[i])]))]

-----------------------------------------------------------------------------
(* The file system.                                                        *)

Dir == [kind |-> "dir", ok |-> FALSE, d |-> EmptyDict]
File == [kind |-> "file", ok |-> FALSE, d |-> EmptyDict]
\* a config file that parses to the dict c
ConfigFile(c) == [kind |-> "file", ok |-> TRUE, d |-> c]
EmptyFs == [p \in {} |-> Dir]
\* the result of a path lookup that found nothing (a Python None)
NoPath == << >>

Join(p, name) == Append(p, name)
IsPrefix(p, q) == Len(p) <= Len(q) /\ SubSeq(q, 1, Len(p)) = p
Exists(f, p) == p \in DOMAIN f
isfile(f, p) == Exists(f, p) /\ f[p].kind = "file"
isdir(f, p) == Exists(f, p) /\ f[p].kind = "dir"
\* os.listdir of a directory: the names of its entries
listdir(f, p) == {q[Len(p) + 1] : q \in {r \in DOMAIN f : IsPrefix(p, r) /\ Len(r) = Len(p) + 1}}

\* os.remove of a file, shutil.rmtree of a directory: the path and all below
RemoveTree(f, p) == [q \in {r \in DOMAIN f : ~IsPrefix(p, r)} |-> f[q]]

\* shutil.copytree(src, dest) where dest can be created: every entry of src
\* that can be read is copied with its content
CopyTree(f, src, dest, skip) ==
    LET from == {q \in DOMAIN f : IsPrefix(src, q) /\ \A u \in skip : ~IsPrefix(u, q)}
        to(q) == dest \o SubSeq(q, Len(src) + 1, Len(q))
    IN  [r \in DOMAIN f \cup {to(q) : q \in from} |->
            IF \E q \in from : to(q) = r
            THEN f[CHOOSE q \in from : to(q) = r]
            ELSE f[r]]

\* json.dumps of a value: a tuple is written as a list
ToJson(val) == IF val.t = "tuple" THEN ListV(val.v) ELSE val

\* read_user_config(path): the dict of path/config, {} when the file is
\* missing or cannot be parsed
read_user_config(f, path) ==
    IF path # NoPath /\ isfile(f, Join(path, "config")) /\ f[Join(path, "config")].ok
    THEN f[Join(path, "config")].d
    ELSE EmptyDict

\* save_user_config(config, path): path/config holds the serialized config
save_user_config(f, config, path) ==
    IF path # NoPath /\ isdir(f, path) /\ ~isdir(f, Join(path, "config"))
    THEN [r \in DOMAIN f \cup {Join(path, "config")} |->
            IF r = Join(path, "config")
            THEN ConfigFile([k \in DOMAIN config |-> ToJson(config[k])])
            ELSE f[r]]
    ELSE f

-----------------------------------------------------------------------------
(* Directory probes.                                                       *)

\* the directory the per-user directories live in
BaseDir(os, env) ==
    IF os = "posix" /\ "HOME" \in env THEN <<"home">>
    ELSE IF "APPDATA" \in env THEN <<"appdata">>
    ELSE IF "LOCALAPPDATA" \in env THEN <<"localappdata">>
    ELSE NoPath

get_ec_user_dir(os, env) ==
    IF BaseDir(os, env) = NoPath THEN NoPath ELSE Join(BaseDir(os, env), "ec")

get_user_dir(os, env) ==
    IF BaseDir(os, env) = NoPath THEN NoPath ELSE Join(BaseDir(os, env), "abc")

does_user_dir_exist(os, env, f) ==
    ~(get_user_dir(os, env) = NoPath \/ ~isdir(f, get_user_dir(os, env)))

does_ec_user_dir_exist(os, env, f) ==
    ~(get_ec_user_dir(os, env) = NoPath \/ ~isdir(f, get_ec_user_dir(os, env)))

-----------------------------------------------------------------------------
(* safe_rm                                                                 *)

\* the ways the body of the try block can end: the file system it leaves,
\* the exception it raises ("none" when it completes) and why.  os.remove
\* and shutil.rmtree raise OSError when the removal is denied ("denied") or
\* when another process removed the path after the type test ("vanished");
\* rmtree can have removed a part of the directory by then ("partial").
RemoveAttempt(f, path) ==
    IF isfile(f, path) \/ isdir(f, path)
    THEN {[fs |-> RemoveTree(f, path), exc |-> "none", cause |-> "none"],
          [fs |-> f, exc |-> "OSError", cause |-> "denied"],
          [fs |-> RemoveTree(f, path), exc |-> "OSError", cause |-> "vanished"]}
         \cup {[fs |-> RemoveTree(f, q), exc |-> "OSError", cause |-> "partial"] :
                  q \in {r \in DOMAIN f : isdir(f, path) /\ IsPrefix(path, r) /\ r # path}}
    ELSE {[fs |-> f, exc |-> "none", cause |-> "none"]}

\* a handler that lets every exception through
SafeRmCatches_Nothing(exc) == FALSE

\* except (OSError, shutil.Error)
SafeRmCatches(exc) == exc \in {"OSError", "shutil.Error"}

\* the ways a call of safe_rm(path) can end: whether the exception left the
\* function, and whether the warning was logged
safe_rm_call(f, path) ==
    {[fs |-> a.fs, cause |-> a.cause,
      raised |-> a.exc # "none" /\ ~SafeRmCatches(a.exc),
      warned |-> a.exc # "none" /\ SafeRmCatches(a.exc)] : a \in RemoveAttempt(f, path)}

\* the file systems safe_rm(path) can leave: the path removed; or, the
\* removal having raised OSError (caught and logged), nothing removed or,
\* for a directory, only a part of what is below it
safe_rm(f, path) == {r.fs : r \in safe_rm_call(f, path)}

-----------------------------------------------------------------------------
(* migrate_data_from_ec                                                    *)

\* the condition without its test of this application's directory
Triggered_NoDestTest(os, env, f) == does_ec_user_dir_exist(os, env, f)

\* the condition of the import
Triggered(os, env, f) ==
    does_ec_user_dir_exist(os, env, f) /\ ~does_user_dir_exist(os, env, f)

\* whether shutil.copytree(src, dest) raises before it creates anything:
\* src cannot be listed, or dest exists or cannot be created
CopyRaisesEarly(f, src, dest, creatable, skip) ==
    src \in skip \/ Exists(f, dest) \/ ~creatable

\* a copy whose errors on single entries are dropped
CopyRaisesLate_Never(f, src, skip) == FALSE

\* whether it raises shutil.Error after copying what it could
CopyRaisesLate(f, src, skip) ==
    \E q \in DOMAIN f : IsPrefix(src, q) /\ q \in skip

\* the changes to the mainnet config, before the paths are adjusted
ScrubMainConfig(config) ==
    LET c1 == reset_server_config(config)
        c2 == IF Has(c1, "fee_per_kb")
              THEN Set(c1, "fee_per_kb", IntV(DefaultFeeRate)) ELSE c1
        c3 == Set(c2, "use_labels", BoolV(FALSE))
        c4 == Set(c3, "use_cosigner_pool", BoolV(FALSE))
    IN  Set(c4, "use_fusion", BoolV(FALSE))

\* the path the process resolves a relative file name to
Resolve(dir, name) == Join(dir, name)

\* the path handed to safe_rm for an entry of the cache directory
CachePurgePath(dir, cache_dir, filename) == Resolve(dir, filename)

Src == get_ec_user_dir(os_name, environ)
Dest == get_user_dir(os_name, environ)

ImportFrame == UNCHANGED <<os_name, environ, cwd, canCreate, unreadable,
                           version, gated, inp, out>>

\* a call of safe_rm(path) from migrate_data_from_ec
CallSafeRm(path) ==
    /\ fs' \in safe_rm(fs, path)
    /\ rmFailed' = (rmFailed \/ (Exists(fs, path) /\ fs' # RemoveTree(fs, path)))

\* the call and its condition
MigrateCall ==
    /\ pc = "idle" /\ runs < MaxRuns
    /\ runs' = runs + 1 /\ fs0' = fs /\ steps' = {} /\ rmFailed' = FALSE
    /\ IF Triggered(os_name, environ, fs)
       THEN pc' = "copy" /\ outcome' = "none"
       ELSE pc' = "idle" /\ outcome' = "returned"
    /\ UNCHANGED <<fs, listing>> /\ ImportFrame

\* shutil.copytree(src, dest)
MigrateCopy ==
    /\ pc = "copy"
    /\ IF CopyRaisesEarly(fs, Src, Dest, canCreate, unreadable)
       THEN /\ pc' = "idle" /\ outcome' = "raised"
            /\ UNCHANGED <<fs, steps>>
       ELSE /\ fs' = CopyTree(fs, Src, Dest, unreadable)
            /\ IF CopyRaisesLate(fs, Src, unreadable)
               THEN pc' = "idle" /\ outcome' = "raised" /\ UNCHANGED steps
               ELSE pc' = "lock" /\ steps' = steps \cup {"copy"}
                    /\ UNCHANGED outcome
    /\ UNCHANGED <<listing, runs, fs0>> /\ UNCHANGED rmFailed /\ ImportFrame

\* the lock file
MigrateLock ==
    /\ pc = "lock"
    /\ IF isfile(fs, Join(Dest, "daemon"))
       THEN CallSafeRm(Join(Dest, "daemon"))
       ELSE UNCHANGED <<fs, rmFailed>>
    /\ pc' = "listdir" /\ steps' = steps \cup {"lock"}
    /\ UNCHANGED <<listing, outcome, runs, fs0>> /\ ImportFrame

\* os.listdir(cache_dir), which raises when cache_dir is no directory
MigrateListdir ==
    /\ pc = "listdir"
    /\ IF isdir(fs, Join(Dest, "cache"))
       THEN /\ listing' = listdir(fs, Join(Dest, "cache"))
            /\ pc' = "purge" /\ UNCHANGED outcome
       ELSE /\ pc' = "idle" /\ outcome' = "raised" /\ UNCHANGED listing
    /\ UNCHANGED <<fs, steps, runs, fs0>> /\ UNCHANGED rmFailed /\ ImportFrame

\* one turn of the loop over the cache files
MigratePurgeOne ==
    /\ pc = "purge"
    /\ \E filename \in listing :
          /\ CallSafeRm(CachePurgePath(cwd, Join(Dest, "cache"), filename))
          /\ listing' = listing \ {filename}
    /\ UNCHANGED <<pc, steps, outcome, runs, fs0>> /\ ImportFrame

\* the end of the loop
MigratePurgeDone ==
    /\ pc = "purge" /\ listing = {}
    /\ pc' = "recent" /\ steps' = steps \cup {"purge"}
    /\ UNCHANGED <<fs, listing, outcome, runs, fs0>> /\ UNCHANGED rmFailed /\ ImportFrame

\* the recent servers list
MigrateRecent ==
    /\ pc = "recent"
    /\ CallSafeRm(Join(Dest, "recent-servers"))
    /\ pc' = "main" /\ steps' = steps \cup {"recent"}
    /\ UNCHANGED <<listing, outcome, runs, fs0>> /\ ImportFrame

\* the mainnet config file
MigrateMain ==
    /\ pc = "main"
    /\ LET config == read_user_config(fs, Dest)
           r == replace_src_dest_in_config(os_name, SrcStr(os_name),
                                           DestStr(os_name), ScrubMainConfig(config))
       IN  IF DOMAIN config = {}
           THEN pc' = "trecent" /\ steps' = steps \cup {"main"}
                /\ UNCHANGED <<fs, outcome>>
           ELSE IF r.raised
                THEN pc' = "idle" /\ outcome' = "raised" /\ UNCHANGED <<fs, steps>>
                ELSE /\ fs' = save_user_config(fs, r.config, Dest)
                     /\ pc' = "trecent" /\ steps' = steps \cup {"main"}
                     /\ UNCHANGED outcome
    /\ UNCHANGED <<listing, runs, fs0>> /\ UNCHANGED rmFailed /\ ImportFrame

\* the testnet recent servers list
MigrateTestRecent ==
    /\ pc = "trecent"
    /\ CallSafeRm(Join(Join(Dest, "testnet"), "recent-servers"))
    /\ pc' = "test" /\ steps' = steps \cup {"trecent"}
    /\ UNCHANGED <<listing, outcome, runs, fs0>> /\ ImportFrame

\* the testnet config file
MigrateTest ==
    /\ pc = "test"
    /\ LET testnet_dir_path == Join(Dest, "testnet")
           testnet_config == read_user_config(fs, testnet_dir_path)
           r == replace_src_dest_in_config(os_name, SrcStr(os_name),
                       DestStr(os_name), reset_server_config(testnet_config))
       IN  IF DOMAIN testnet_config = {}
           THEN outcome' = "returned" /\ steps' = steps \cup {"test"}
                /\ UNCHANGED fs
           ELSE IF r.raised
                THEN outcome' = "raised" /\ UNCHANGED <<fs, steps>>
                ELSE /\ fs' = save_user_config(fs, r.config, testnet_dir_path)
                     /\ outcome' = "returned" /\ steps' = steps \cup {"test"}
    /\ pc' = "idle"
    /\ UNCHANGED <<listing, runs, fs0>> /\ UNCHANGED rmFailed /\ ImportFrame

-----------------------------------------------------------------------------
(* The states an import can start from.                                    *)

\* path strings a legacy config can hold: inside the legacy directory,
\* elsewhere, inside with the legacy path once more in the remainder, and
\* with the legacy path elsewhere than at the start
InsidePath(os) == SrcStr(os) \o <<"w">>
PathSamples(os) ==
    {InsidePath(os), <<"w">>, SrcStr(os) \o <<"w">> \o SrcStr(os),
     <<"w">> \o SrcStr(os) \o <<"w">>}
    \cup (IF os = "nt" THEN {<<"/", "e", "W">>} ELSE {})

ServerSettings ==
    [k \in {"whitelist_servers_only", "auto_connect", "server",
            "server_whitelist_added", "server_whitelist_removed",
            "server_blacklist", "rpcuser", "rpcpassword"} |->
        CASE k \in {"whitelist_servers_only", "auto_connect"} -> BoolV(FALSE)
          [] k \in {"server", "rpcuser", "rpcpassword"} -> StrV(<<"s">>)
          [] OTHER -> ListV(<<StrV(<<"s">>)>>)]

UserSettings ==
    [k \in {"fee_per_kb", "use_labels", "use_cosigner_pool", "use_fusion"} |->
        IF k = "fee_per_kb" THEN IntV(80000) ELSE BoolV(TRUE)]

FullConfig(p) ==
    ServerSettings @@ UserSettings
    @@ [k \in {"wallet_path", "recently_open"} |->
           IF k = "wallet_path" THEN StrV(p) ELSE ListV(<<StrV(p)>>)]

BareConfig(os) == [k \in {"wallet_path"} |-> StrV(InsidePath(os))]

\* a list other than recently_open that holds paths, one of them nested
NestedConfig(os) ==
    BareConfig(os)
    @@ [k \in {"backups"} |->
           ListV(<<StrV(InsidePath(os)), ListV(<<StrV(InsidePath(os))>>)>>)]

\* a recently_open list with an entry that is no string
BadOpenConfig(os) ==
    BareConfig(os) @@ [k \in {"recently_open"} |-> ListV(<<IntV(1)>>)]

MainConfigs(os) ==
    {FullConfig(p) : p \in PathSamples(os)}
    \cup {BareConfig(os), NestedConfig(os), BadOpenConfig(os), EmptyDict}

\* what can be at <dir>/config: nothing, a file that does not parse, a dict
Unparsable == File
MainFiles(os) ==
    {[present |-> FALSE, node |-> File], [present |-> TRUE, node |-> Unparsable]}
    \cup {[present |-> TRUE, node |-> ConfigFile(c)] : c \in MainConfigs(os)}

\* the testnet subdirectory: none, one without a config, one with a config
TestnetShapes == {"none", "dir", "config"}

\* the cache subdirectory: none, or one with these files; "abc" is also the
\* name of this application's directory
CacheShapes ==
    {[present |-> FALSE, names |-> {}]}
    \cup {[present |-> TRUE, names |-> n] : n \in {{}, {"rates"}, {"abc"}}}

Opt(b, f) == IF b THEN f ELSE EmptyFs

LegacyTree(os, root, aux, cache, main, testnet) ==
    (root :> Dir) @@ (Join(root, "wallets") :> File)
    @@ Opt(aux, (Join(root, "daemon") :> File)
                @@ (Join(root, "recent-servers") :> File))
    @@ Opt(cache.present,
           (Join(root, "cache") :> Dir)
           @@ [q \in {Join(Join(root, "cache"), n) : n \in cache.names} |-> File])
    @@ Opt(main.present, Join(root, "config") :> main.node)
    @@ Opt(testnet # "none", Join(root, "testnet") :> Dir)
    @@ Opt(testnet = "config",
           (Join(Join(root, "testnet"), "config") :> ConfigFile(FullConfig(InsidePath(os))))
           @@ Opt(aux, Join(Join(root, "testnet"), "recent-servers") :> File))

\* what exists besides the two user directories
Surroundings(base) ==
    Opt(base # NoPath, base :> Dir)
    @@ (<<"work">> :> Dir) @@ (<<"work", "rates">> :> File)

\* an installation of this application
OwnTree(os, root) ==
    (root :> Dir) @@ (Join(root, "wallets") :> File)
    @@ (Join(root, "config") :> ConfigFile(FullConfig(DestStr(os) \o <<"w">>)))
    @@ (Join(root, "cache") :> Dir) @@ (Join(Join(root, "cache"), "rates") :> File)
    @@ (Join(root, "recent-servers") :> File)

StandardEnviron(os) == IF os = "posix" THEN {"HOME"} ELSE {"APPDATA"}

Faults == {[canCreate |-> TRUE, unreadable |-> {}],
           [canCreate |-> FALSE, unreadable |-> {}],
           [canCreate |-> TRUE, unreadable |-> {"wallets"}]}

ImportInitCommon ==
    /\ pc = "idle" /\ listing = {} /\ outcome = "none" /\ runs = 0
    /\ fs0 = fs /\ steps = {} /\ rmFailed = FALSE
    /\ version = <<0, 0, 0>> /\ gated = {} /\ inp = EmptyDict /\ out = EmptyDict

\* a legacy directory and no directory of this application
InitFirstRun ==
    \E os \in {"posix", "nt"}, aux \in BOOLEAN, cache \in CacheShapes,
       testnet \in TestnetShapes, fault \in Faults :
       \E main \in MainFiles(os) :
          LET base == BaseDir(os, StandardEnviron(os))
              ec == Join(base, "ec")
          IN  /\ os_name = os /\ environ = StandardEnviron(os)
              /\ fs = Surroundings(base)
                      @@ LegacyTree(os, ec, aux, cache, main, testnet)
              /\ canCreate = fault.canCreate
              /\ unreadable = {Join(ec, n) : n \in fault.unreadable}
              /\ cwd \in {base, <<"work">>}
                         \cup (IF cache.present THEN {Join(ec, "cache")} ELSE {})

\* a directory of this application, or a file in its place
InitInstalled ==
    \E os \in {"posix", "nt"}, legacy \in BOOLEAN, asFile \in BOOLEAN :
       LET base == BaseDir(os, StandardEnviron(os))
       IN  /\ os_name = os /\ environ = StandardEnviron(os)
           /\ fs = Surroundings(base)
                   @@ Opt(legacy, LegacyTree(os, Join(base, "ec"), TRUE,
                             [present |-> TRUE, names |-> {"rates"}],
                             [present |-> TRUE,
                              node |-> ConfigFile(FullConfig(InsidePath(os)))],
                             "config"))
                   @@ (IF asFile THEN Join(base, "abc") :> File
                       ELSE OwnTree(os, Join(base, "abc")))
           /\ canCreate = TRUE /\ unreadable = {}
           /\ cwd \in {base, <<"work">>}

\* no legacy directory: none, a file in its place, or no way to name it
InitNoLegacy ==
    \E os \in {"posix", "nt"} :
       \E env \in {StandardEnviron(os), {}, {"LOCALAPPDATA"}}, asFile \in BOOLEAN :
          LET base == BaseDir(os, env)
          IN  /\ os_name = os /\ environ = env
              /\ fs = Surroundings(base)
                      @@ Opt(asFile /\ base # NoPath, Join(base, "ec") :> File)
              /\ canCreate = TRUE /\ unreadable = {}
              /\ cwd = <<"work">>

Init ==
    /\ InitFirstRun \/ InitInstalled \/ InitNoLegacy
    /\ ImportInitCommon

Next ==
    \/ MigrateCall
    \/ MigrateCopy
    \/ MigrateLock
    \/ MigrateListdir
    \/ MigratePurgeOne
    \/ MigratePurgeDone
    \/ MigrateRecent
    \/ MigrateMain
    \/ MigrateTestRecent
    \/ MigrateTest

Spec == Init /\ [][Next]_vars

-----------------------------------------------------------------------------
(* update_config                                                           *)

\* a tuple of integers as a value, and back
Ints(seq) == [i \in 1..Len(seq) |-> IntV(seq[i])]
Untag(vals) == [i \in 1..Len(vals) |-> vals[i].v]

\* a < b for Python tuples of integers
RECURSIVE TupleLess(_, _)
TupleLess(a, b) ==
    IF Len(a) = 0 THEN Len(b) > 0
    ELSE IF Len(b) = 0 THEN FALSE
    ELSE IF a[1] # b[1] THEN a[1] < b[1]
    ELSE TupleLess(Tail(a), Tail(b))

\* config.get("latest_version_used", (4, 3, 1)), made a tuple
ConfigVersion(config) ==
    IF Has(config, "latest_version_used")
    THEN Untag(config["latest_version_used"].v)
    ELSE BaselineVersion

\* the gate that compares with > in place of >=
UpToDate_Strict(config_version, running) == TupleLess(running, config_version)

\* the gate that lets every call through
UpToDate_Never(config_version, running) == FALSE

\* tuple(config_version) >= VERSION_TUPLE
UpToDate(config_version, running) == ~TupleLess(config_version, running)

\* the test that knows the first of the old defaults only
FeeIsOldDefault_First(config) ==
    /\ Has(config, "fee_per_kb") /\ config["fee_per_kb"].t = "int"
    /\ config["fee_per_kb"].v = 80000

\* config.get("fee_per_kb") in OLD_DEFAULT_FEES
FeeIsOldDefault(config) ==
    /\ Has(config, "fee_per_kb") /\ config["fee_per_kb"].t = "int"
    /\ config["fee_per_kb"].v \in OLD_DEFAULT_FEES

\* config["cashfusion_server"][0] raises: nothing to index
FusionHostRaises(config) ==
    /\ Has(config, "cashfusion_server")
    /\ \/ config["cashfusion_server"].t \notin {"list", "tuple", "str"}
       \/ Len(config["cashfusion_server"].v) = 0

\* the test that finds no host invalid
FusionHostInvalid_Never(config) == FALSE

\* previous_host in INVALID_FUSION_HOSTS
FusionHostInvalid(config) ==
    /\ Has(config, "cashfusion_server")
    /\ config["cashfusion_server"].t \in {"list", "tuple"}
    /\ config["cashfusion_server"].v[1].t = "str"
    /\ config["cashfusion_server"].v[1].v \in INVALID_FUSION_HOSTS

\* the fixups, with the stamp only when one of them changed the config
Upgrade_StampOnChange(config, running) ==
    LET c1 == IF FeeIsOldDefault(config)
              THEN Set(config, "fee_per_kb", IntV(DefaultFeeRate)) ELSE config
        c2 == IF FusionHostInvalid(c1)
              THEN Set(c1, "cashfusion_server", DefaultFusionServer) ELSE c1
    IN  IF c2 = config THEN config
        ELSE Set(c2, "latest_version_used", TupleV(Ints(running)))

\* the fixups and the stamp, after a reset of the server settings
Upgrade_ResetServer(config, running) ==
    LET c0 == reset_server_config(config)
        c1 == IF FeeIsOldDefault(c0)
              THEN Set(c0, "fee_per_kb", IntV(DefaultFeeRate)) ELSE c0
        c2 == IF FusionHostInvalid(c1)
              THEN Set(c1, "cashfusion_server", DefaultFusionServer) ELSE c1
    IN  Set(c2, "latest_version_used", TupleV(Ints(running)))

\* the fixups and the stamp, for a config that passed the gate
Upgrade(config, running) ==
    LET c1 == IF FeeIsOldDefault(config)
              THEN Set(config, "fee_per_kb", IntV(DefaultFeeRate)) ELSE config
        c2 == IF FusionHostInvalid(c1)
              THEN Set(c1, "cashfusion_server", DefaultFusionServer) ELSE c1
    IN  Set(c2, "latest_version_used", TupleV(Ints(running)))

\* how a call ends, and the file system it leaves
update_config(os, env, f, running) ==
    LET config == read_user_config(f, get_user_dir(os, env))
    IN  IF DOMAIN config = {} THEN [status |-> "noconfig", fs |-> f]
        ELSE IF UpToDate(ConfigVersion(config), running)
             THEN [status |-> "uptodate", fs |-> f]
        ELSE IF FusionHostRaises(config)
             THEN [status |-> "raised", fs |-> f]
        ELSE [status |-> "updated",
              fs |-> save_user_config(f, Upgrade(config, running),
                                      get_user_dir(os, env))]

\* the versions of the releases that can be run
Versions ==
    {<<4, 3, p>> : p \in 1..(MaxPatch + 1)} \cup {<<3, 9, 9>>, <<4, 10, 0>>}

UpdateFrame == UNCHANGED <<os_name, environ, cwd, canCreate, unreadable, pc,
                           listing, steps, rmFailed, inp, out>>

\* a start of the application: a call of update_config by some release
UpdateConfig ==
    /\ pc = "idle" /\ runs < MaxUpdates
    /\ \E running \in Versions :
          LET r == update_config(os_name, environ, fs, running)
          IN  /\ fs' = r.fs /\ outcome' = r.status /\ version' = running
              /\ gated' = IF r.status = "updated" THEN gated \cup {running}
                          ELSE gated
    /\ runs' = runs + 1 /\ fs0' = fs
    /\ UpdateFrame

\* between two starts the user sets the fee in the preferences
UserSetFee ==
    /\ pc = "idle" /\ runs > 0
    /\ DOMAIN read_user_config(fs, Dest) # {}
    /\ \E fee \in OLD_DEFAULT_FEES \cup {DefaultFeeRate} :
          fs' = save_user_config(fs,
                   Set(read_user_config(fs, Dest), "fee_per_kb", IntV(fee)), Dest)
    /\ fs' # fs
    /\ UNCHANGED <<outcome, version, gated, runs, fs0>>
    /\ UpdateFrame

\* a fee the user chose that is neither an old default nor the current one
CustomFee == 2000

\* the configs an installation can hold when the application starts: the
\* server settings, and any of a version marker, a fee and a CashFusion
\* server (host, port, ssl) as the application stores them
UpdateConfigs ==
    {[k \in DOMAIN ServerSettings \cup m.keys |->
         CASE k \in DOMAIN ServerSettings -> ServerSettings[k]
           [] k = "latest_version_used" -> ListV(Ints(m.marker))
           [] k = "fee_per_kb" -> IntV(m.fee)
           [] k = "cashfusion_server" -> m.fusion] :
     m \in [keys : SUBSET {"latest_version_used", "fee_per_kb", "cashfusion_server"},
            marker : Versions,
            fee : OLD_DEFAULT_FEES \cup {DefaultFeeRate, CustomFee},
            fusion : {ListV(<<StrV(h), IntV(1), BoolV(FALSE)>>) :
                         h \in INVALID_FUSION_HOSTS \cup {<<"x">>}}]}

InitUpdate ==
    /\ os_name = "posix" /\ environ = {"HOME"}
    /\ \E node \in {ConfigFile(c) : c \in UpdateConfigs \cup {EmptyDict}} \cup {Unparsable} :
          fs = Surroundings(<<"home">>) @@ (<<"home", "abc">> :> Dir)
               @@ (<<"home", "abc", "config">> :> node)
    /\ cwd = <<"work">> /\ canCreate = TRUE /\ unreadable = {}
    /\ ImportInitCommon

NextUpdate == UpdateConfig \/ UserSetFee

SpecUpdate == InitUpdate /\ [][NextUpdate]_vars

-----------------------------------------------------------------------------
(* reset_server_config and replace_src_dest_in_config on drawn inputs.     *)

\* dict.pop(k) raises KeyError for an absent key unless a default is given
PopRaises(c, k, hasDefault) == ~hasDefault /\ ~Has(c, k)

\* whether reset_server_config raises: each pop is given the default None
reset_server_config_raises(config) ==
    \E k \in {"server_whitelist_added", "server_whitelist_removed",
              "server_blacklist", "rpcuser", "rpcpassword"} :
       PopRaises(config, k, TRUE)

HarnessFrame == UNCHANGED <<os_name, environ, fs, cwd, canCreate, unreadable, listing,
                            outcome, runs, fs0, steps, rmFailed, version, gated, inp>>

HarnessInitCommon ==
    /\ environ = StandardEnviron(os_name)
    /\ fs = Surroundings(BaseDir(os_name, environ))
    /\ cwd = <<"work">> /\ canCreate = TRUE /\ unreadable = {}
    /\ listing = {} /\ outcome = "none" /\ runs = 0
    /\ fs0 = fs /\ steps = {} /\ rmFailed = FALSE
    /\ version = <<0, 0, 0>> /\ gated = {}
    /\ out = [raised |-> FALSE, config |-> EmptyDict]

\* the values drawn for a key of the input of reset_server_config
ResetValues(k) ==
    CASE k \in {"whitelist_servers_only", "auto_connect"} -> {BoolV(TRUE), BoolV(FALSE)}
      [] k = "server" -> {StrV(<< >>), StrV(<<"s">>)}
      [] k \in {"rpcuser", "rpcpassword"} -> {StrV(<<"u">>)}
      [] k = "fee_per_kb" -> {IntV(80000)}
      [] OTHER -> {ListV(<<StrV(<<"s">>)>>)}

ResetKeys == {"whitelist_servers_only", "auto_connect", "server",
              "server_whitelist_added", "server_whitelist_removed",
              "server_blacklist", "rpcuser", "rpcpassword", "fee_per_kb"}

ResetInputs ==
    {[k \in keys |-> IF k \in DOMAIN pick THEN pick[k]
                     ELSE CHOOSE val \in ResetValues(k) : TRUE] :
     keys \in SUBSET ResetKeys,
     pick \in [whitelist_servers_only : ResetValues("whitelist_servers_only"),
               auto_connect : ResetValues("auto_connect"),
               server : ResetValues("server")]}

InitReset ==
    /\ os_name = "posix" /\ pc = "reset"
    /\ inp \in ResetInputs
    /\ HarnessInitCommon

ResetCall ==
    /\ pc = "reset"
    /\ out' = [raised |-> reset_server_config_raises(inp),
               config |-> reset_server_config(inp)]
    /\ pc' = "reset_done"
    /\ HarnessFrame

SpecReset == InitReset /\ [][ResetCall]_vars

\* the strings drawn as values of the input of replace_src_dest_in_config
Chars == {"/", "\\", "e", "E"}
RECURSIVE StringsOfLen(_)
StringsOfLen(n) ==
    IF n = 0 THEN {<< >>}
    ELSE {Append(s, ch) : s \in StringsOfLen(n - 1), ch \in Chars}
Strings(maxLen) == UNION {StringsOfLen(n) : n \in 0..maxLen}

RECURSIVE ListsOfLen(_, _)
ListsOfLen(n, maxLen) ==
    IF n = 0 THEN {<< >>}
    ELSE {Append(l, StrV(s)) : l \in ListsOfLen(n - 1, maxLen), s \in Strings(maxLen)}

RewriteInputs(maxLen, maxOpen) ==
    {[k \in {"fee_per_kb"} \cup m.keys |->
         CASE k = "fee_per_kb" -> IntV(80000)
           [] k = "wallet_path" -> StrV(m.path)
           [] k = "recently_open" -> ListV(m.open)] :
     m \in [keys : SUBSET {"wallet_path", "recently_open"},
            path : Strings(maxLen),
            open : UNION {ListsOfLen(n, maxLen) : n \in 0..maxOpen}]}

InitRewrite ==
    /\ os_name \in {"posix", "nt"} /\ pc = "rewrite"
    /\ inp \in RewriteInputs(MaxLen, MaxOpen)
    /\ HarnessInitCommon

RewriteCall ==
    /\ pc = "rewrite"
    /\ out' = replace_src_dest_in_config(os_name, SrcStr(os_name),
                                         DestStr(os_name), inp)
    /\ pc' = "rewrite_done"
    /\ HarnessFrame

SpecRewrite == InitRewrite /\ [][RewriteCall]_vars

\* safe_rm on drawn inputs: a populated home directory, and as the path
\* each file and directory of it and two paths that do not exist
SafeRmTrees ==
    {OwnTree("posix", <<"home", "abc">>)}
    \cup {LegacyTree("posix", <<"home", "ec">>, aux, cache,
                     [present |-> FALSE, node |-> File], testnet) :
             aux \in BOOLEAN, cache \in CacheShapes, testnet \in TestnetShapes}

InitSafeRm ==
    /\ os_name = "posix" /\ pc = "rm"
    /\ environ = StandardEnviron(os_name)
    /\ \E tree \in SafeRmTrees : fs = Surroundings(<<"home">>) @@ tree
    /\ inp \in DOMAIN fs \cup {<<"home", "none">>, <<"none", "cache">>}
    /\ cwd = <<"work">> /\ canCreate = TRUE /\ unreadable = {}
    /\ listing = {} /\ outcome = "none" /\ runs = 0
    /\ fs0 = fs /\ steps = {} /\ rmFailed = FALSE
    /\ version = <<0, 0, 0>> /\ gated = {}
    /\ out = "none"

\* a call of safe_rm(inp): out is the cause of the failure, if any
SafeRmCall ==
    /\ pc = "rm"
    /\ \E r \in safe_rm_call(fs, inp) :
          /\ fs' = r.fs /\ rmFailed' = r.warned /\ out' = r.cause
          /\ outcome' = IF r.raised THEN "raised" ELSE "returned"
    /\ pc' = "rm_done" /\ runs' = runs + 1
    /\ UNCHANGED <<os_name, environ, cwd, canCreate, unreadable, listing,
                   fs0, steps, version, gated, inp>>

SpecSafeRm == InitSafeRm /\ [][SafeRmCall]_vars

-----------------------------------------------------------------------------
(* Properties of the import.                                               *)

ImportSteps == {"copy", "lock", "purge", "recent", "main", "trecent", "test"}

\* the last call found the condition of the import true
WasTriggered == runs > 0 /\ Triggered(os_name, environ, fs0)

\* the keys reset_server_config leaves as the server policy requires
ServerPolicyReset(c) ==
    /\ Has(c, "whitelist_servers_only")
    /\ c["whitelist_servers_only"] = BoolV(DEFAULT_WHITELIST_SERVERS_ONLY)
    /\ Has(c, "auto_connect") /\ c["auto_connect"] = BoolV(DEFAULT_AUTO_CONNECT)
    /\ Has(c, "server") /\ c["server"] = StrV(<< >>)
    /\ ~Has(c, "rpcuser") /\ ~Has(c, "rpcpassword")

\* a string value that begins with the legacy directory path
IsLegacyPath(val) ==
    val.t = "str"
    /\ StartsWith(normcase(os_name, val.v), normcase(os_name, SrcStr(os_name)))

\* some string at any depth of a value begins with the legacy path
\* (the values of the model nest lists at most twice)
HoldsLegacyPath(val) ==
    \/ IsLegacyPath(val)
    \/ /\ val.t = "list"
       /\ \E i \in 1..Len(val.v) :
             \/ IsLegacyPath(val.v[i])
             \/ /\ val.v[i].t = "list"
                /\ \E j \in 1..Len(val.v[i].v) : IsLegacyPath(val.v[i].v[j])

\* the import was triggered, returned, and left a readable mainnet config
ImportedMainConfig ==
    /\ pc = "idle" /\ WasTriggered /\ outcome = "returned"
    /\ DOMAIN read_user_config(fs, Dest) # {}

\* C1: when this application's directory exists at the call, the call is a
\* no-op: the file system stays as it was, no step of the import runs and
\* the call returns.
C1_ExistingDestUntouched ==
    (runs > 0 /\ does_user_dir_exist(os_name, environ, fs0))
        => (fs = fs0 /\ steps = {} /\ pc = "idle" /\ outcome = "returned")

C1_Witness ==
    /\ runs > 0 /\ pc = "idle"
    /\ does_user_dir_exist(os_name, environ, fs0)
    /\ does_ec_user_dir_exist(os_name, environ, fs0)

\* C2: a second call in a row changes nothing: it copies nothing, deletes
\* nothing and saves no config, so the state after two calls is the state
\* after one.
C2_SecondRunNoOp == (runs >= 2) => (fs = fs0 /\ steps = {})

\* C3: once an import has ended, by returning or by raising, every readable
\* config record in the destination (mainnet and testnet) has the server
\* policy reset and holds no rpcuser and no rpcpassword.
C3_ServerPolicyAfterImport ==
    (pc = "idle" /\ WasTriggered) =>
        \A dir \in {Dest, Join(Dest, "testnet")} :
            DOMAIN read_user_config(fs, dir) # {}
                => ServerPolicyReset(read_user_config(fs, dir))

\* C4: once the copy has completed the call returns normally and has run
\* every later step.
C4_OnlyCopyAborts ==
    (pc = "idle" /\ "copy" \in steps)
        => (outcome = "returned" /\ steps = ImportSteps)

\* C8 as stated: after an import that returned with a readable mainnet
\* config, no string of the saved config begins with the legacy path, at the
\* top level, in recently_open or inside any other list.
C8_NoLegacyPathAnywhere ==
    ImportedMainConfig =>
        \A k \in DOMAIN read_user_config(fs, Dest) :
            ~HoldsLegacyPath(read_user_config(fs, Dest)[k])

\* C8 amended: after an import that returned with a readable mainnet
\* config, no top-level string of the saved config and no entry of its
\* recently_open list begins with the legacy path.
C8_NoLegacyPathTopLevel ==
    ImportedMainConfig =>
        LET c == read_user_config(fs, Dest)
        IN  /\ \A k \in DOMAIN c : ~IsLegacyPath(c[k])
            /\ Has(c, "recently_open") /\ c["recently_open"].t = "list"
                  => \A i \in 1..Len(c["recently_open"].v) :
                        ~IsLegacyPath(c["recently_open"].v[i])

\* an import rewrote wallet_path and recently_open to the new directory
C8_Witness ==
    /\ ImportedMainConfig
    /\ LET c0 == read_user_config(fs0, Src)
           c == read_user_config(fs, Dest)
       IN  /\ Has(c0, "wallet_path") /\ IsLegacyPath(c0["wallet_path"])
           /\ Has(c0, "recently_open")
           /\ IsLegacyPath(c0["recently_open"].v[1])
           /\ StartsWith(c["wallet_path"].v, normcase(os_name, DestStr(os_name)))
           /\ StartsWith(c["recently_open"].v[1].v,
                         normcase(os_name, DestStr(os_name)))

\* C10: after an import that returned and in which no deletion failed, the
\* destination's cache directory holds no entry.
C10_CachePurged ==
    (pc = "idle" /\ WasTriggered /\ outcome = "returned" /\ ~rmFailed)
        => listdir(fs, Join(Dest, "cache")) = {}

\* C11: at every moment of a call, every file and directory that was outside
\* this application's directory when the call began (the legacy directory
\* and the working directory among them) still exists and is as it was.
C11_DeletionsInsideDest ==
    (runs > 0 /\ Dest # NoPath) =>
        \A p \in DOMAIN fs0 :
            ~IsPrefix(Dest, p) => (Exists(fs, p) /\ fs[p] = fs0[p])

\* the copy of the last call could not complete: the destination could not
\* be created, was there as a file, or an entry of the legacy directory
\* could not be read
CopyCannotComplete ==
    \/ ~canCreate
    \/ Exists(fs0, Dest)
    \/ \E q \in DOMAIN fs0 : IsPrefix(Src, q) /\ q \in unreadable

\* C12: when the copy of a triggered import fails, the call ends by raising
\* and no later step has run: nothing is deleted and no config is saved, so
\* the file system holds what it held at the call and what the copy had
\* written before it failed.
C12_CopyFailureStops ==
    (WasTriggered /\ CopyCannotComplete) =>
        /\ steps = {}
        /\ pc \in {"copy", "idle"}
        /\ pc = "idle" => outcome = "raised"
        /\ fs \in {fs0, CopyTree(fs0, Src, Dest, unreadable)}

\* a copy failed after it had written a part of the legacy directory
C12_Witness ==
    /\ WasTriggered /\ CopyCannotComplete
    /\ pc = "idle" /\ outcome = "raised"
    /\ fs # fs0 /\ isdir(fs, Dest)

\* C13: after a triggered import whose copy failed, this application's
\* directory holds nothing that was not there at the call (no imported
\* wallet, no legacy config), and the condition of the import is still
\* true, so that the next call imports again.
C13_FailedCopyLeavesNothing ==
    (pc = "idle" /\ WasTriggered /\ outcome = "raised" /\ steps = {}) =>
        /\ \A p \in DOMAIN fs : IsPrefix(Dest, p) => Exists(fs0, p)
        /\ Triggered(os_name, environ, fs)

\* C19: once a triggered import whose copy completed has ended, a testnet
\* config that could be read in the legacy directory is saved in the
\* destination with the server policy reset, no top-level legacy path, and
\* its fee_per_kb, use_labels, use_cosigner_pool and use_fusion as they
\* were, whatever the mainnet config was; and a mainnet config that could
\* be read is saved with the server policy reset and the three plugins
\* disabled, whatever the testnet config was.
C19_ProfilesIndependent ==
    (pc = "idle" /\ WasTriggered /\ "copy" \in steps) =>
        LET t0 == read_user_config(fs0, Join(Src, "testnet"))
            t == read_user_config(fs, Join(Dest, "testnet"))
            m0 == read_user_config(fs0, Src)
            m == read_user_config(fs, Dest)
        IN  /\ DOMAIN t0 # {} =>
                  /\ ServerPolicyReset(t)
                  /\ \A k \in DOMAIN t : ~IsLegacyPath(t[k])
                  /\ \A k \in DOMAIN UserSettings :
                        Has(t, k) /\ t[k] = t0[k]
            /\ DOMAIN m0 # {} =>
                  /\ ServerPolicyReset(m)
                  /\ \A k \in {"use_labels", "use_cosigner_pool", "use_fusion"} :
                        Has(m, k) /\ m[k] = BoolV(FALSE)

-----------------------------------------------------------------------------
(* Properties of update_config.                                            *)

OwnConfig == read_user_config(fs, Dest)

\* C5: once a call with some running version has passed the gate, a later
\* call with the same running version applies no fixup and writes nothing,
\* whatever fee the user has set in between.
C5_GateNotReapplied ==
    [][(runs' = runs + 1 /\ version' \in gated)
          => (fs' = fs /\ outcome' = "uptodate")]_vars

\* a repeated call left an old default fee, set after the first call, alone
C5_Witness ==
    /\ runs >= 2 /\ outcome = "uptodate" /\ version \in gated
    /\ ConfigVersion(OwnConfig) = version
    /\ FeeIsOldDefault(OwnConfig)

\* C6: the stored marker is never removed and never decreases in tuple
\* order, and a call whose running version is not above the stored marker
\* (the baseline when there is none) leaves the file system unchanged.
C6_MarkerMonotonic ==
    [][/\ Has(OwnConfig, "latest_version_used")
            => /\ Has(read_user_config(fs', Dest), "latest_version_used")
               /\ ~TupleLess(ConfigVersion(read_user_config(fs', Dest)),
                             ConfigVersion(OwnConfig))
       /\ (runs' = runs + 1 /\ ~TupleLess(ConfigVersion(OwnConfig), version'))
            => fs' = fs]_vars

\* an older release ran after a newer one had stamped the config
C6_Witness ==
    /\ runs >= 2 /\ outcome = "uptodate"
    /\ Has(OwnConfig, "latest_version_used")
    /\ ConfigVersion(OwnConfig) \in gated
    /\ TupleLess(version, ConfigVersion(OwnConfig))

\* a step that is a call of update_config past the gate: a config record
\* exists and its marker, the baseline when it has none, is below the
\* running version
CallPastGate ==
    /\ runs' = runs + 1
    /\ DOMAIN OwnConfig # {}
    /\ TupleLess(ConfigVersion(OwnConfig), version')

\* the config record before the last call
ConfigBefore == read_user_config(fs0, Dest)

\* the last call passed the gate and saved the record
SavedPastGate ==
    /\ runs > 0 /\ outcome = "updated"
    /\ DOMAIN ConfigBefore # {}
    /\ TupleLess(ConfigVersion(ConfigBefore), version)

\* C15: a call past the gate replaces fee_per_kb by the default fee rate
\* when the stored value is 80000 or 10000, persists any other stored value
\* unchanged, and leaves an absent fee_per_kb absent.
C15_FeeFixupBoundary ==
    [][CallPastGate =>
          LET c == OwnConfig
              d == read_user_config(fs', Dest)
          IN  /\ Has(d, "fee_per_kb") <=> Has(c, "fee_per_kb")
              /\ Has(c, "fee_per_kb") =>
                    d["fee_per_kb"] = IF c["fee_per_kb"].v \in {80000, 10000}
                                      THEN IntV(DefaultFeeRate)
                                      ELSE c["fee_per_kb"]]_vars

\* a call on a record without a marker replaced the old default 10000
C15_Witness ==
    /\ SavedPastGate
    /\ Has(ConfigBefore, "fee_per_kb")
    /\ ConfigBefore["fee_per_kb"] = IntV(10000)
    /\ OwnConfig["fee_per_kb"] = IntV(DefaultFeeRate)
    /\ ~Has(ConfigBefore, "latest_version_used")

\* C16: a call past the gate ends with the record persisted and its
\* latest_version_used equal to the running version, whether or not a fixup
\* matched.
C16_StampAlwaysWritten ==
    [][CallPastGate =>
          /\ outcome' = "updated"
          /\ Has(read_user_config(fs', Dest), "latest_version_used")
          /\ read_user_config(fs', Dest)["latest_version_used"]
                = ListV(Ints(version'))]_vars

\* a call past the gate in which no fixup matched wrote the stamp, and
\* nothing else
C16_Witness ==
    /\ SavedPastGate
    /\ ~FeeIsOldDefault(ConfigBefore) /\ ~FusionHostInvalid(ConfigBefore)
    /\ Has(ConfigBefore, "fee_per_kb") /\ Has(ConfigBefore, "cashfusion_server")
    /\ OwnConfig = Set(ConfigBefore, "latest_version_used", ListV(Ints(version)))
    /\ fs # fs0

\* C17: a call of update_config changes at most fee_per_kb,
\* cashfusion_server and latest_version_used: every other key of the config
\* record is present after the call exactly when it was before, with the
\* same value.
C17_UpgradeKeepsOtherKeys ==
    [][runs' = runs + 1 =>
          LET c == OwnConfig
              d == read_user_config(fs', Dest)
          IN  \A k \in (DOMAIN c \cup DOMAIN d)
                          \ {"fee_per_kb", "cashfusion_server", "latest_version_used"} :
                 Has(c, k) /\ Has(d, k) /\ d[k] = c[k]]_vars

\* a call rewrote a record that holds a server, the white and black lists
\* and RPC credentials, and they are as they were
C17_Witness ==
    /\ SavedPastGate /\ fs # fs0
    /\ FeeIsOldDefault(ConfigBefore) /\ FusionHostInvalid(ConfigBefore)
    /\ \A k \in DOMAIN ServerSettings :
          Has(OwnConfig, k) /\ OwnConfig[k] = ServerSettings[k]
    /\ OwnConfig["server"] = StrV(<<"s">>)
    /\ OwnConfig["auto_connect"] = BoolV(FALSE)

\* C18: a call past the gate replaces cashfusion_server by the first default
\* server when the host of the stored preference, its first element, is one
\* of the invalid hosts, persists a preference with another host unchanged,
\* and leaves an absent cashfusion_server absent.
C18_FusionServerFixup ==
    [][CallPastGate =>
          LET c == OwnConfig
              d == read_user_config(fs', Dest)
          IN  /\ Has(d, "cashfusion_server") <=> Has(c, "cashfusion_server")
              /\ Has(c, "cashfusion_server") =>
                    d["cashfusion_server"]
                       = IF c["cashfusion_server"].v[1].v \in INVALID_FUSION_HOSTS
                         THEN DefaultFusionServer
                         ELSE c["cashfusion_server"]]_vars

\* a call replaced the preference for an invalid host by the default server
C18_Witness ==
    /\ SavedPastGate
    /\ Has(ConfigBefore, "cashfusion_server")
    /\ ConfigBefore["cashfusion_server"].v[1] = StrV(<<"t">>)
    /\ OwnConfig["cashfusion_server"] = DefaultFusionServer
    /\ OwnConfig["cashfusion_server"] # ConfigBefore["cashfusion_server"]

-----------------------------------------------------------------------------
(* Properties of the helpers.                                              *)

\* the path the claim expects for a string: dest and the remainder when it
\* begins with src, the string itself otherwise
ExpectedPath(os, s) ==
    IF StartsWith(normcase(os, s), normcase(os, SrcStr(os)))
    THEN DestStr(os) \o SubSeq(s, Len(SrcStr(os)) + 1, Len(s))
    ELSE s

\* two strings that name the same path on this platform
SamePath(os, a, b) == normcase(os, a) = normcase(os, b)

\* C7: after replace_src_dest_in_config every top-level string and every
\* entry of recently_open that begins with src is dest followed by the
\* remainder unchanged, every other one is as it was (compared as paths of
\* the platform), and the values that are no strings are untouched.
C7_PrefixRewritten ==
    pc = "rewrite_done" =>
        /\ ~out.raised /\ DOMAIN out.config = DOMAIN inp
        /\ \A k \in DOMAIN inp :
              CASE inp[k].t = "str" ->
                      /\ out.config[k].t = "str"
                      /\ SamePath(os_name, out.config[k].v,
                                  ExpectedPath(os_name, inp[k].v))
                [] k = "recently_open" ->
                      /\ Len(out.config[k].v) = Len(inp[k].v)
                      /\ \A i \in 1..Len(inp[k].v) :
                            SamePath(os_name, out.config[k].v[i].v,
                                     ExpectedPath(os_name, inp[k].v[i].v))
                [] OTHER -> out.config[k] = inp[k]

\* C9: reset_server_config does not raise; its result has the two flags at
\* their defaults, an empty server, none of the white list, black list and
\* RPC keys, and every other key as in the input.
C9_ServerReset ==
    pc = "reset_done" =>
        /\ ~out.raised
        /\ ServerPolicyReset(out.config)
        /\ \A k \in {"server_whitelist_added", "server_whitelist_removed",
                     "server_blacklist"} : ~Has(out.config, k)
        /\ \A k \in (DOMAIN inp \cup DOMAIN out.config)
                      \ {"whitelist_servers_only", "auto_connect", "server",
                         "server_whitelist_added", "server_whitelist_removed",
                         "server_blacklist", "rpcuser", "rpcpassword"} :
              Has(inp, k) /\ Has(out.config, k) /\ out.config[k] = inp[k]

\* a reset of a config with a server, RPC credentials and another key, and
\* without some of the keys that are popped or set
C9_Witness ==
    /\ pc = "reset_done"
    /\ Has(inp, "server") /\ inp["server"] # StrV(<< >>)
    /\ Has(inp, "rpcuser") /\ Has(inp, "rpcpassword") /\ Has(inp, "fee_per_kb")
    /\ ~Has(inp, "server_blacklist") /\ ~Has(inp, "auto_connect")

\* what is common to the two readings of C14: the call returns; when no
\* warning was logged the path does not exist and nothing else changed
SafeRmReturnsAndRemoves ==
    /\ outcome = "returned"
    /\ ~rmFailed => (~Exists(fs, inp) /\ fs = RemoveTree(fs0, inp))

\* C14 as stated: safe_rm on a path that does not exist, on a file or on a
\* directory returns normally, also when the removal fails; on success the
\* path no longer exists; on a failure of its own removal (the path was not
\* taken away by another process) it leaves the file system unchanged.
C14_SafeRmFailureChangesNothing ==
    pc = "rm_done" =>
        /\ SafeRmReturnsAndRemoves
        /\ (rmFailed /\ out # "vanished") => fs = fs0

\* C14 amended: safe_rm returns normally in every case; on success the path
\* no longer exists; on failure a warning is logged, nothing outside the
\* path has changed and nothing was created, but a part of a directory can
\* have been removed.
C14_SafeRmNeverPropagates ==
    pc = "rm_done" =>
        /\ SafeRmReturnsAndRemoves
        /\ rmFailed =>
              /\ \A p \in DOMAIN fs : Exists(fs0, p) /\ fs[p] = fs0[p]
              /\ \A p \in DOMAIN fs0 : ~IsPrefix(inp, p) => Exists(fs, p)

\* the removal of a directory failed after a part of it was removed, and
\* the call returned
C14_Witness ==
    /\ pc = "rm_done" /\ outcome = "returned" /\ rmFailed
    /\ isdir(fs0, inp) /\ isdir(fs, inp) /\ fs # fs0

====
